---- MODULE Spec2Model ----
(***************************************************************************)
(* Gazelle notebook (Gazelle_cleaned.ipynb): environment guard, dataset    *)
(* load, GazelleConfig / GazelleModel, the demo training loop and the      *)
(* greedy generate() loop, modelled statement by statement.                *)
(*                                                                         *)
(* The numerical kernels (embedding, encoder layers, AdamW, tokenizer) are *)
(* library code; they are represented by small integer stand-ins that keep *)
(* the shapes and the data flow of the notebook's calls.                      *)
(***************************************************************************)
EXTENDS Integers, Sequences, FiniteSets, TLC

\* ---------------------------------------------------------------- bounds
\* GazelleConfig.vocab_size and GazelleConfig.ctx_len, scaled down
\* (the notebook uses 65536 and 512).
VocabSize == 3
CtxLen == 3
\* largest dataset size explored (len(dataset))
MaxData == 12
\* largest max_new_tokens explored
MaxNew == 3
\* longest tokenized prompt explored
MaxPrompt == 3
\* number of distinct abstract weight values
NumWeights == 4
\* range of a hidden activation and of a logit value
HiddenMod == 5
LogitLevels == 4
\* ranges of the constructor arguments explored by SpecConfig
MaxLayers == 2
MaxEmbd == 8
MaxHeads == 6

\* ------------------------------------------------------ program constants
\* `if i > 10: break`
IterCap == 10
\* `if i % 5 == 0: print(...)`
LogEvery == 5
\* GazelleConfig defaults
DefaultLayers == 12
DefaultEmbd == 1536
DefaultHeads == 24
\* tokenizer.eos_token_id and the id used by padding='max_length'
eos_token_id == 0
pad_token_id == 0

Vocab == 0 .. (VocabSize - 1)
NonEos == Vocab \ {eos_token_id}

VARIABLES
    pc,              \* position in the notebook
    cuda_available,  \* torch.cuda.is_available()
    seeded,          \* torch.manual_seed(42); np.random.seed(42) done
    error,           \* message of the exception that stopped the run
    dataset,         \* len(dataset), -1 before load_dataset
    config,          \* the GazelleConfig instance
    params,          \* model.parameters(), -1 before construction
    training,        \* model.training (nn.Module mode flag)
    rng,             \* state of the seeded torch generator (dropout draws)
    tokenizer,       \* AutoTokenizer loaded
    dataset_enc,     \* dataset.map(encode)
    i,               \* batch index of the training loop, -1 while unbound
    input_ids,       \* batch['input_ids']
    logits,          \* result of the latest model(...) call
    loss,            \* latest loss value
    grads,           \* number of backward passes accumulated in .grad
    updates,         \* number of optimizer.step() calls so far
    events,          \* events of the current training iteration, in order
    printed,         \* number of progress messages printed
    prompt,          \* tokenizer(prompt).input_ids of the current call
    max_new_tokens,  \* argument of the current call
    ids,             \* the growing id sequence
    k,               \* number of completed iterations of the generate loop
    next_id,         \* latest argmax result
    steps,           \* model(ids) calls made by the current generate call
    eos_at,          \* step at which eos was first selected, 0 if never
    out,             \* ids[0] handed to tokenizer.decode by the latest return
    returned,        \* a generate call has returned
    last             \* arguments, weights and result of the previous call

vars == << pc, cuda_available, seeded, error, dataset, config, params,
           training, rng, tokenizer, dataset_enc, i, input_ids, logits, loss,
           grads, updates, events, printed, prompt, max_new_tokens, ids, k,
           next_id, steps, eos_at, out, returned, last >>

envVars == << cuda_available, seeded, error >>
dataVars == << dataset, tokenizer, dataset_enc >>
modelVars == << config, params, training, rng >>
trainVars == << i, input_ids, loss, grads, updates, events, printed >>
genVars == << prompt, max_new_tokens, ids, k, next_id, steps, eos_at, out,
              returned, last >>

NoConfig == [n_layer |-> 0, n_embd |-> 0, n_head |-> 0,
             vocab_size |-> 0, ctx_len |-> 0]
NoCall == [prompt |-> << >>, n |-> -1, params |-> -1, out |-> << >>]

\* ------------------------------------------------------------ the model
\* @dataclass GazelleConfig with its defaults
GazelleConfig == [n_layer |-> DefaultLayers, n_embd |-> DefaultEmbd,
                  n_head |-> DefaultHeads, vocab_size |-> VocabSize,
                  ctx_len |-> CtxLen]

\* nn.TransformerEncoderLayer(d_model, nhead) accepts the pair iff nhead
\* divides d_model ("embed_dim must be divisible by num_heads").
EncoderLayerAccepts(d_model, nhead) == d_model % nhead = 0

\* variant: the first layer is built without the library's check
InitSucceedsSkipFirst(c) ==
    \A l \in 2 .. c.n_layer : EncoderLayerAccepts(c.n_embd, c.n_head)

\* GazelleModel.__init__: one encoder layer is built per element of
\* range(n_layer); the constructor fails iff one of those calls fails.
InitSucceeds(c) ==
    \A l \in 1 .. c.n_layer : EncoderLayerAccepts(c.n_embd, c.n_head)

\* weights a freshly constructed model may have: they are drawn from the
\* torch generator, whose stream depends on the library version and device
InitParams == 0 .. (NumWeights - 1)

\* self.embedding(x), for one token id
Embedding(w, tok) == (tok + w) % HiddenMod

\* one nn.TransformerEncoderLayer applied to the activation h of one
\* position.  The layers are built without batch_first, so dimension 0 of
\* the (1, L, E) input is the sequence dimension: self-attention runs over
\* a sequence of length 1 and every position is transformed on its own.
\* d is the dropout draw (0 in eval mode).
EncoderLayer(h, d) ==
    [a \in 0 .. (HiddenMod - 1) |-> (a * a + a + d) % HiddenMod][h]

\* for layer in self.layers: x = layer(x)
RECURSIVE Layers(_, _, _)
Layers(h, n, d) ==
    IF n <= 0 THEN h ELSE Layers(EncoderLayer(h, d), n - 1, d)

\* self.head(self.ln_f(x)): the logit of id v from the activation h
LmHead(w, h, v) == (h * (v + 1) + w * v) % LogitLevels

\* GazelleModel.forward: per-position logits over the vocabulary; the
\* logits of a position depend on the id at that position only
Forward(w, c, x, d) ==
    [p \in 1 .. Len(x) |->
        [v \in Vocab |->
            LmHead(w, Layers(Embedding(w, x[p]), c.n_layer, d), v)]]

\* dropout is active only in training mode; the draw comes from the generator
DropoutDraw == IF training THEN 1 + (rng % 2) ELSE 0
RngAfterForward == IF training THEN (rng + 1) % 4 ELSE rng

\* torch.argmax(row): index of the first maximal value
ArgMax(row) ==
    CHOOSE v \in Vocab :
        /\ \A u \in Vocab : row[v] >= row[u]
        /\ \A u \in Vocab : row[u] = row[v] => v <= u

\* nn.functional.cross_entropy(logits, targets), as a mismatch count
CrossEntropy(lg, tgt) ==
    Cardinality({p \in 1 .. Len(tgt) : ArgMax(lg[p]) # tgt[p]})

\* optimizer.step(): AdamW update of the weights from the gradient
AdamW(w, ls) == (w + 2 + ls) % NumWeights

\* ------------------------------------------------------------- dataset
\* token ids of example['text'] of record n (1-based), before truncation
RawTokens(n) ==
    [j \in 1 .. (n % (CtxLen + 2)) |-> 1 + ((n + j) % (VocabSize - 1))]

\* encode(): truncation=True, padding='max_length', max_length=ctx_len
encode(raw, c) ==
    [j \in 1 .. c.ctx_len |-> IF j <= Len(raw) THEN raw[j] ELSE pad_token_id]

\* tokenizer(prompt).input_ids for the prompts explored: id sequences of
\* 0 to MaxPrompt ids (the empty one for the prompt ''), not truncated and
\* not padded
Prompts ==
    {[j \in 1 .. n |-> 1 + ((j + a) % (VocabSize - 1))] :
        n \in 0 .. MaxPrompt, a \in 0 .. 1}

\* exceptions generate() ends with on an empty id sequence: the model call
\* rejects the empty index tensor, or logits[:, -1] has no row to take
EmptyInputError == "RuntimeError: model(ids) on an empty id tensor"
NoLastRowError ==
    "IndexError: index -1 is out of bounds for dimension 1 with size 0"

\* ---------------------------------------------------------------- Init
Init ==
    /\ pc = "guard"
    /\ cuda_available \in BOOLEAN
    /\ seeded = FALSE
    /\ error = ""
    /\ dataset = -1
    /\ config = NoConfig
    /\ params = -1
    /\ training = FALSE
    /\ rng = 0
    /\ tokenizer = FALSE
    /\ dataset_enc = << >>
    /\ i = -1
    /\ input_ids = << >>
    /\ logits = << >>
    /\ loss = 0
    /\ grads = 0
    /\ updates = 0
    /\ events = << >>
    /\ printed = 0
    /\ prompt = << >>
    /\ max_new_tokens = 0
    /\ ids = << >>
    /\ k = 0
    /\ next_id = -1
    /\ steps = 0
    /\ eos_at = 0
    /\ out = << >>
    /\ returned = FALSE
    /\ last = NoCall

\* ------------------------------------------------- cell 1: the guard
\* variant: the else branch only warns and the notebook goes on
GuardNoRaise ==
    /\ pc = "guard"
    /\ seeded' = cuda_available
    /\ rng' = 0
    /\ pc' = "install"
    /\ UNCHANGED << cuda_available, error, dataVars, config, params,
                    training, trainVars, logits, genVars >>

\* if torch.cuda.is_available(): ... seed ... else: raise RuntimeError
Guard ==
    /\ pc = "guard"
    /\ IF cuda_available
       THEN /\ seeded' = TRUE
            /\ rng' = 0
            /\ pc' = "install"
            /\ error' = error
       ELSE /\ error' = "GPU required"
            /\ pc' = "error"
            /\ UNCHANGED << seeded, rng >>
    /\ UNCHANGED << cuda_available, dataVars, config, params, training,
                    trainVars, logits, genVars >>

\* cell 2: !pip install -q transformers datasets einops
Install ==
    /\ pc = "install"
    /\ pc' = "load"
    /\ UNCHANGED << envVars, dataVars, modelVars, trainVars, logits, genVars >>

\* cell 3: dataset = load_dataset(...); any size up to MaxData
LoadDataset ==
    /\ pc = "load"
    /\ \E n \in 0 .. MaxData : dataset' = n
    /\ pc' = "config"
    /\ UNCHANGED << envVars, tokenizer, dataset_enc, modelVars, trainVars,
                    logits, genVars >>

\* cell 5: config = GazelleConfig()   (cell 4 only defines the classes)
MakeConfig ==
    /\ pc = "config"
    /\ config' = GazelleConfig
    /\ pc' = "construct"
    /\ UNCHANGED << envVars, dataVars, params, training, rng, trainVars,
                    logits, genVars >>

\* model = GazelleModel(config).cuda()
Construct ==
    /\ pc = "construct"
    /\ IF InitSucceeds(config)
       THEN /\ params' \in InitParams
            /\ training' = TRUE
            /\ pc' = "tokenizer"
            /\ error' = error
       ELSE /\ error' = "embed_dim must be divisible by num_heads"
            /\ pc' = "error"
            /\ UNCHANGED << params, training >>
    /\ UNCHANGED << cuda_available, seeded, dataVars, config, rng, trainVars,
                    logits, genVars >>

\* tokenizer = AutoTokenizer.from_pretrained(...)
LoadTokenizer ==
    /\ pc = "tokenizer"
    /\ tokenizer' = TRUE
    /\ pc' = "map"
    /\ UNCHANGED << envVars, dataset, dataset_enc, modelVars, trainVars,
                    logits, genVars >>

\* dataset_enc = dataset.map(encode); loader; optimizer = AdamW(...)
MapEncode ==
    /\ pc = "map"
    /\ dataset_enc' = [n \in 1 .. dataset |-> encode(RawTokens(n), config)]
    /\ pc' = "t_next"
    /\ UNCHANGED << envVars, dataset, tokenizer, modelVars, trainVars,
                    logits, genVars >>

\* ------------------------------------------- cell 5: the training loop
\* for i, batch in enumerate(loader): next batch, or the loader is exhausted
TrainNext ==
    /\ pc = "t_next"
    /\ IF i + 1 < dataset
       THEN /\ i' = i + 1
            /\ events' = << >>
            /\ pc' = "t_check"
       ELSE /\ pc' = "g_idle"
            /\ UNCHANGED << i, events >>
    /\ UNCHANGED << envVars, dataVars, modelVars, input_ids, loss, grads,
                    updates, printed, logits, genVars >>

\* if i > 10: break
TrainCheck ==
    /\ pc = "t_check"
    /\ pc' = IF i > IterCap THEN "g_idle" ELSE "t_input"
    /\ UNCHANGED << envVars, dataVars, modelVars, trainVars, logits, genVars >>

\* input_ids = batch['input_ids'].cuda()
\* dataset_enc has no tensor format set, so a record's input_ids is a list
\* of ints and the default collate function turns the batch into a list of
\* ctx_len one-element tensors: the list has no .cuda() and the statement
\* raises on the first batch.
TrainInput ==
    /\ pc = "t_input"
    /\ error' = "AttributeError: 'list' object has no attribute 'cuda'"
    /\ pc' = "error"
    /\ UNCHANGED << cuda_available, seeded, dataVars, modelVars, trainVars,
                    logits, genVars >>

\* The statements below (lines 124-131) follow the raise above in the loop
\* body: no run reaches them, and they are not part of Next.

\* logits = model(input_ids)
TrainForward ==
    /\ pc = "t_forward"
    /\ logits' = Forward(params, config, input_ids, DropoutDraw)
    /\ rng' = RngAfterForward
    /\ events' = Append(events, "forward")
    /\ pc' = "t_loss"
    /\ UNCHANGED << envVars, dataVars, config, params, training, i,
                    input_ids, loss, grads, updates, printed, genVars >>

\* loss = nn.functional.cross_entropy(logits.view(...), input_ids.view(-1))
TrainLoss ==
    /\ pc = "t_loss"
    /\ loss' = CrossEntropy(logits, input_ids)
    /\ events' = Append(events, "loss")
    /\ pc' = "t_backward"
    /\ UNCHANGED << envVars, dataVars, modelVars, i, input_ids, grads,
                    updates, printed, logits, genVars >>

\* loss.backward(): gradients are added to what .grad already holds
TrainBackward ==
    /\ pc = "t_backward"
    /\ grads' = grads + 1
    /\ events' = Append(events, "backward")
    /\ pc' = "t_step"
    /\ UNCHANGED << envVars, dataVars, modelVars, i, input_ids, loss,
                    updates, printed, logits, genVars >>

\* optimizer.step()
TrainStep ==
    /\ pc = "t_step"
    /\ params' = AdamW(params, loss)
    /\ updates' = updates + 1
    /\ events' = Append(events, "step")
    /\ pc' = "t_zero"
    /\ UNCHANGED << envVars, dataVars, config, training, rng, i, input_ids,
                    loss, grads, printed, logits, genVars >>

\* optimizer.zero_grad()
TrainZeroGrad ==
    /\ pc = "t_zero"
    /\ grads' = 0
    /\ events' = Append(events, "zero_grad")
    /\ pc' = "t_log"
    /\ UNCHANGED << envVars, dataVars, modelVars, i, input_ids, loss,
                    updates, printed, logits, genVars >>

\* if i % 5 == 0: print(f'step {i} loss ...')
TrainLog ==
    /\ pc = "t_log"
    /\ printed' = IF i % LogEvery = 0 THEN printed + 1 ELSE printed
    /\ pc' = "t_next"
    /\ UNCHANGED << envVars, dataVars, modelVars, i, input_ids, loss, grads,
                    updates, events, logits, genVars >>

\* ------------------------------------------------ cell 6: generate()
\* a call generate(prompt, max_new_tokens); the previous call is remembered
GenCall ==
    /\ pc = "g_idle"
    /\ \E pr \in Prompts, n \in 0 .. MaxNew :
          /\ prompt' = pr
          /\ max_new_tokens' = n
    /\ last' = IF ~returned THEN NoCall
               ELSE [prompt |-> prompt, n |-> max_new_tokens,
                     params |-> params, out |-> out]
    /\ ids' = << >>
    /\ k' = 0
    /\ next_id' = -1
    /\ steps' = 0
    /\ eos_at' = 0
    /\ pc' = "g_eval"
    /\ UNCHANGED << envVars, dataVars, modelVars, trainVars, logits, out,
                    returned >>

\* variant: model.eval() is missing, the model stays in training mode
GenEvalSkipped ==
    /\ pc = "g_eval"
    /\ pc' = "g_tokenize"
    /\ UNCHANGED << envVars, dataVars, modelVars, trainVars, logits, genVars >>

\* variant: generate() builds a fresh GazelleModel(config) before eval()
GenEvalReinit ==
    /\ pc = "g_eval"
    /\ params' \in InitParams
    /\ training' = FALSE
    /\ pc' = "g_tokenize"
    /\ UNCHANGED << envVars, dataVars, config, rng, trainVars, logits,
                    genVars >>

\* model.eval()
GenEval ==
    /\ pc = "g_eval"
    /\ training' = FALSE
    /\ pc' = "g_tokenize"
    /\ UNCHANGED << envVars, dataVars, config, params, rng, trainVars,
                    logits, genVars >>

\* ids = tokenizer(prompt, return_tensors='pt').input_ids.cuda()
GenTokenize ==
    /\ pc = "g_tokenize"
    /\ ids' = prompt
    /\ pc' = "g_loop"
    /\ UNCHANGED << envVars, dataVars, modelVars, trainVars, logits, prompt,
                    max_new_tokens, k, next_id, steps, eos_at, out, returned,
                    last >>

\* variant: the loop runs once more than range(max_new_tokens)
GenLoopOffByOne ==
    /\ pc = "g_loop"
    /\ pc' = IF k <= max_new_tokens THEN "g_forward" ELSE "g_return"
    /\ UNCHANGED << envVars, dataVars, modelVars, trainVars, logits, genVars >>

\* for _ in range(max_new_tokens):
GenLoop ==
    /\ pc = "g_loop"
    /\ pc' = IF k < max_new_tokens THEN "g_forward" ELSE "g_return"
    /\ UNCHANGED << envVars, dataVars, modelVars, trainVars, logits, genVars >>

\* logits = model(ids).  On an empty id sequence the call either raises
\* (the tokenizer's empty tensor is no index tensor) or yields logits with
\* no row; which of the two depends on the library versions.
GenForward ==
    /\ pc = "g_forward"
    /\ \/ /\ logits' = Forward(params, config, ids, DropoutDraw)
          /\ rng' = RngAfterForward
          /\ steps' = steps + 1
          /\ pc' = "g_argmax"
          /\ error' = error
       \/ /\ ids = << >>
          /\ error' = EmptyInputError
          /\ pc' = "error"
          /\ UNCHANGED << logits, rng, steps >>
    /\ UNCHANGED << cuda_available, seeded, dataVars, config, params,
                    training, trainVars, prompt, max_new_tokens, ids, k,
                    next_id, eos_at, out, returned, last >>

\* variant: logits[:, 0] instead of logits[:, -1]
GenArgmaxFirstPos ==
    /\ pc = "g_argmax"
    /\ IF logits = << >>
       THEN /\ error' = NoLastRowError
            /\ pc' = "error"
            /\ UNCHANGED << next_id, eos_at >>
       ELSE /\ next_id' = ArgMax(logits[1])
            /\ eos_at' = IF eos_at = 0 /\ next_id' = eos_token_id THEN steps
                         ELSE eos_at
            /\ pc' = "g_cat"
            /\ error' = error
    /\ UNCHANGED << cuda_available, seeded, dataVars, modelVars, trainVars,
                    logits, prompt, max_new_tokens, ids, k, steps, out,
                    returned, last >>

\* next_id = torch.argmax(logits[:, -1], dim=-1, keepdim=True)
\* logits with no row have no last row: the indexing raises
GenArgmax ==
    /\ pc = "g_argmax"
    /\ IF logits = << >>
       THEN /\ error' = NoLastRowError
            /\ pc' = "error"
            /\ UNCHANGED << next_id, eos_at >>
       ELSE /\ next_id' = ArgMax(logits[Len(logits)])
            /\ eos_at' = IF eos_at = 0 /\ next_id' = eos_token_id THEN steps
                         ELSE eos_at
            /\ pc' = "g_cat"
            /\ error' = error
    /\ UNCHANGED << cuda_available, seeded, dataVars, modelVars, trainVars,
                    logits, prompt, max_new_tokens, ids, k, steps, out,
                    returned, last >>

\* ids = torch.cat([ids, next_id], dim=-1)
GenCat ==
    /\ pc = "g_cat"
    /\ ids' = Append(ids, next_id)
    /\ pc' = "g_eos"
    /\ UNCHANGED << envVars, dataVars, modelVars, trainVars, logits, prompt,
                    max_new_tokens, k, next_id, steps, eos_at, out, returned,
                    last >>

\* variant: the end-of-sequence test never leaves the loop
GenEosNoBreak ==
    /\ pc = "g_eos"
    /\ pc' = "g_loop"
    /\ k' = k + 1
    /\ UNCHANGED << envVars, dataVars, modelVars, trainVars, logits, prompt,
                    max_new_tokens, ids, next_id, steps, eos_at, out, returned,
                    last >>

\* if next_id.item() == tokenizer.eos_token_id: break
GenEos ==
    /\ pc = "g_eos"
    /\ IF next_id = eos_token_id
       THEN pc' = "g_return" /\ k' = k
       ELSE pc' = "g_loop" /\ k' = k + 1
    /\ UNCHANGED << envVars, dataVars, modelVars, trainVars, logits, prompt,
                    max_new_tokens, ids, next_id, steps, eos_at, out, returned,
                    last >>

\* return tokenizer.decode(ids[0])
GenReturn ==
    /\ pc = "g_return"
    /\ out' = ids
    /\ returned' = TRUE
    /\ pc' = "g_idle"
    /\ UNCHANGED << envVars, dataVars, modelVars, trainVars, logits, prompt,
                    max_new_tokens, ids, k, next_id, steps, eos_at, last >>

Next ==
    \/ Guard \/ Install \/ LoadDataset \/ MakeConfig \/ Construct
    \/ LoadTokenizer \/ MapEncode
    \/ TrainNext \/ TrainCheck \/ TrainInput
    \/ GenCall \/ GenEval \/ GenTokenize \/ GenLoop \/ GenForward
    \/ GenArgmax \/ GenCat \/ GenEos \/ GenReturn

Spec == Init /\ [][Next]_vars

\* ---------------------------------------------------------------------
\* The constructor on arbitrary configurations: GazelleModel(config) for
\* every GazelleConfig(n_layer, n_embd, n_head) within the ranges explored.
Configs ==
    {GazelleConfig} \cup
    [n_layer : 0 .. MaxLayers, n_embd : 1 .. MaxEmbd, n_head : 1 .. MaxHeads,
     vocab_size : {VocabSize}, ctx_len : {CtxLen}]

InitConfig ==
    /\ pc = "construct"
    /\ cuda_available = TRUE
    /\ seeded = TRUE
    /\ error = ""
    /\ dataset \in 0 .. 1
    /\ config \in Configs
    /\ params = -1
    /\ training = FALSE
    /\ rng = 0
    /\ tokenizer = FALSE
    /\ dataset_enc = << >>
    /\ i = -1
    /\ input_ids = << >>
    /\ logits = << >>
    /\ loss = 0
    /\ grads = 0
    /\ updates = 0
    /\ events = << >>
    /\ printed = 0
    /\ prompt = << >>
    /\ max_new_tokens = 0
    /\ ids = << >>
    /\ k = 0
    /\ next_id = -1
    /\ steps = 0
    /\ eos_at = 0
    /\ out = << >>
    /\ returned = FALSE
    /\ last = NoCall

NextConfig == Construct \/ LoadTokenizer

SpecConfig == InitConfig /\ [][NextConfig]_vars

\* ---------------------------------------------------------------------
\* Properties

GenPcs == {"g_idle", "g_eval", "g_tokenize", "g_loop", "g_forward",
           "g_argmax", "g_cat", "g_eos", "g_return"}

\* the training loop has been left
TrainingDone == pc \in GenPcs

\* a generate call has returned and no new call has started
Returned == pc = "g_idle" /\ returned

IsPrefix(s, t) == Len(s) <= Len(t) /\ s = SubSeq(t, 1, Len(s))

IsMaxAt(row, v) == \A u \in Vocab : row[v] >= row[u]

IterOrder == << "forward", "loss", "backward", "step", "zero_grad" >>

\* a generate call has been stopped by an exception
GenFailed == pc = "error" /\ error \in {EmptyInputError, NoLastRowError}

\* C1 as stated: for every prompt, a generate call in which the
\* end-of-sequence id was never selected is not stopped by an exception,
\* makes exactly max_new_tokens model steps and returns a sequence of
\* length prompt length + max_new_tokens.
C1_Original ==
    /\ ~(GenFailed /\ eos_at = 0)
    /\ (Returned /\ eos_at = 0) =>
          /\ steps = max_new_tokens
          /\ Len(out) = Len(prompt) + max_new_tokens

\* C1 amended: for every prompt that tokenizes to at least one id, and for
\* the empty one when max_new_tokens = 0, a generate call in which the
\* end-of-sequence id was never selected is not stopped by an exception,
\* makes exactly max_new_tokens model steps, never more, and returns a
\* sequence of length prompt length + max_new_tokens.
C1_Termination ==
    /\ GenFailed => (prompt = << >> /\ max_new_tokens >= 1)
    /\ (prompt # << >> \/ max_new_tokens = 0) =>
          /\ pc \in GenPcs => steps <= max_new_tokens
          /\ (pc = "g_return" /\ eos_at = 0) =>
                /\ steps = max_new_tokens
                /\ Len(ids) = Len(prompt) + max_new_tokens
          /\ (Returned /\ eos_at = 0) =>
                /\ steps = max_new_tokens
                /\ Len(out) = Len(prompt) + max_new_tokens

C1_Witness ==
    /\ Returned
    /\ eos_at = 0
    /\ max_new_tokens = MaxNew
    /\ steps = MaxNew
    /\ Len(out) = Len(prompt) + MaxNew

\* C2: when the end-of-sequence id is selected at model step e (steps
\* counted from 1) with e < max_new_tokens, the loop leaves without another
\* model step and the sequence returned has length prompt length + e.
C2_EarlyStop ==
    (pc \in GenPcs /\ eos_at > 0 /\ eos_at < max_new_tokens) =>
        /\ steps = eos_at
        /\ pc \in {"g_cat", "g_eos", "g_return", "g_idle"}
        /\ pc \in {"g_eos", "g_return", "g_idle"} =>
              Len(ids) = Len(prompt) + eos_at
        /\ pc = "g_idle" => out = ids

C2_Witness ==
    /\ Returned
    /\ eos_at = 2
    /\ max_new_tokens = MaxNew
    /\ steps = 2
    /\ Len(out) = Len(prompt) + 2
    /\ out[Len(out)] = eos_token_id

\* the training loop has returned control or has been stopped by an error
TrainingOver == TrainingDone \/ (pc = "error" /\ i >= 0)

\* C3 as stated, for the datasets that have at least one batch: when the
\* training loop is over, exactly IterCap optimizer updates have been made,
\* whatever the dataset size.  (An empty dataset refutes the statement too:
\* the loop body never runs.)
C3_Original == (TrainingOver /\ dataset >= 1) => updates = IterCap

\* C4: without an accelerator the run stops in the guard with 'GPU
\* required'; nothing is seeded, loaded, constructed, tokenized, trained or
\* generated.
C4_FailFast ==
    ~cuda_available =>
        /\ pc \in {"guard", "error"}
        /\ pc = "error" => error = "GPU required"
        /\ ~seeded
        /\ dataset = -1
        /\ config = NoConfig
        /\ params = -1
        /\ ~tokenizer
        /\ dataset_enc = << >>
        /\ updates = 0
        /\ logits = << >>
        /\ ids = << >>
        /\ ~returned

C4_Witness == ~cuda_available /\ pc = "error" /\ error = "GPU required"

\* C5 as stated: for every configuration, construction succeeds exactly
\* when n_head divides n_embd.
C5_Original ==
    /\ pc = "tokenizer" => config.n_embd % config.n_head = 0
    /\ pc = "error" => config.n_embd % config.n_head # 0

\* C5 amended: for every configuration with n_layer >= 1, construction
\* fails with the configuration error and leaves no model when n_head does
\* not divide n_embd, and succeeds only when it does.
C5_Divides ==
    config.n_layer >= 1 =>
        /\ pc = "tokenizer" =>
              /\ config.n_embd % config.n_head = 0
              /\ params # -1
        /\ config.n_embd % config.n_head # 0 =>
              /\ pc \in {"construct", "error"}
              /\ params = -1
              /\ pc = "error" =>
                    error = "embed_dim must be divisible by num_heads"
        /\ pc = "error" => config.n_embd % config.n_head # 0

C5_Witness ==
    /\ pc = "error"
    /\ config.n_layer >= 1
    /\ config.n_embd % config.n_head # 0
    /\ params = -1

\* C6: a generate call with the same prompt, the same max_new_tokens and
\* the same weights as the previous call goes through the same id sequences
\* and returns the same result.
C6_Determinism ==
    (/\ pc \in GenPcs \ {"g_eval", "g_tokenize"}
     /\ last # NoCall
     /\ last.prompt = prompt
     /\ last.n = max_new_tokens
     /\ last.params = params) =>
        /\ IsPrefix(ids, last.out)
        /\ pc = "g_return" => ids = last.out
        /\ pc = "g_idle" => out = last.out

C6_Witness ==
    /\ pc = "g_idle"
    /\ returned
    /\ last # NoCall
    /\ last.prompt = prompt
    /\ last.n = max_new_tokens
    /\ last.params = params
    /\ steps >= 2
    /\ out = last.out

\* C7: the step that extends the sequence appends one id, that id has a
\* maximal logit in the last row of the model's output on the whole current
\* sequence, and the ids already present stay as a prefix; no other step of
\* the loop changes the sequence.
C7_Greedy ==
    [][ /\ pc = "g_cat" =>
              /\ Len(ids') = Len(ids) + 1
              /\ SubSeq(ids', 1, Len(ids)) = ids
              /\ IsMaxAt(Forward(params, config, ids, 0)[Len(ids)],
                         ids'[Len(ids')])
        /\ pc \in {"g_loop", "g_forward", "g_argmax", "g_eos", "g_return"} =>
              ids' = ids ]_vars

C7_Witness ==
    /\ pc = "g_eos"
    /\ steps >= 2
    /\ Len(ids) = Len(prompt) + steps
    /\ IsPrefix(prompt, ids)
    /\ IsMaxAt(logits[Len(logits)], ids[Len(ids)])

\* C8 as stated: every sequence handed to the forward pass, in training and
\* in generation, has at most ctx_len ids.
C8_Original ==
    /\ pc = "t_forward" => Len(input_ids) <= config.ctx_len
    /\ pc = "g_forward" => Len(ids) <= config.ctx_len

\* C9 as stated: the events of a training iteration come in the order
\* forward, loss, backward, step, zero_grad, each once; every iteration that
\* was executed has them all; no gradient is accumulated when a backward
\* pass starts or when the loop is over.
C9_Original ==
    /\ IsPrefix(events, IterOrder)
    /\ pc = "t_backward" => grads = 0
    /\ (TrainingOver /\ i >= 0 /\ i <= IterCap) => events = IterOrder
    /\ TrainingOver => grads = 0

\* C10: existing parameters change only in optimizer.step(); no step of
\* generate() changes the parameters, the configuration, the gradients or
\* the update count.
C10_Frame ==
    [][ /\ (params # -1 /\ params' # params) => pc = "t_step"
        /\ pc \in GenPcs =>
              /\ params' = params
              /\ config' = config
              /\ grads' = grads
              /\ updates' = updates ]_vars

C10_Witness ==
    /\ Returned
    /\ ~training
    /\ steps >= 2
    /\ Len(out) = Len(prompt) + steps
    /\ params \in InitParams
    /\ config = GazelleConfig

====
